---- MODULE Spec2Model ----
(***************************************************************************)
(* Model of local-ai-analysis-system.  From src/core/document_qa.py: the   *)
(* chunker chunk_text_with_refs, one loop iteration per step, driven by    *)
(* chunk_and_index_documents (Spec); retrieve_top_chunks with              *)
(* answer_from_doc_index (SpecQA; SpecAssemble and SpecLimits for the      *)
(* assembly loop over any ranked result list); and the stitching of page   *)
(* texts in extract_text_from_documents (SpecStitch).  From src/main.py:   *)
(* chunk_text (SpecChunkText) and interactive_menu with find_in_documents  *)
(* and export_last_response (SpecMenu).  From src/core/cleaning_tracker.py *)
(* the tracker of cleaned files (SpecTracker).  Texts are sequences of     *)
(* one-character strings, so that slicing, the page-marker regular         *)
(* expression, strip() and the whitespace normalisation are computed       *)
(* character by character.                                                 *)
(***************************************************************************)
EXTENDS Integers, Sequences, FiniteSets, TLC

VARIABLES
    docs_text,     \* argument of chunk_and_index_documents: sequence of [fname, text]
    chunk_size,    \* argument chunk_size
    overlap,       \* argument overlap
    doc_i,         \* number of docs_text items the for loop has taken
    all_chunks,    \* local all_chunks of chunk_and_index_documents
    index_struct,  \* value returned by chunk_and_index_documents (None until then)
    err,           \* exception that left chunk_and_index_documents ("" for none)
    pc,            \* control position
    fname,         \* chunk_text_with_refs: argument fname
    txt,           \* chunk_text_with_refs: local txt (normalised text)
    length,        \* chunk_text_with_refs: local length
    start,         \* chunk_text_with_refs: local start
    end,           \* chunk_text_with_refs: local end (0 while still unassigned)
    cid,           \* chunk_text_with_refs: local cid
    chunks,        \* chunk_text_with_refs: local chunks
    question,      \* answer_from_doc_index: argument question
    top_k,         \* answer_from_doc_index: argument top_k
    concat_limit,  \* answer_from_doc_index: argument concat_limit
    top,           \* answer_from_doc_index: local top (result of retrieve_top_chunks)
    t_i,           \* number of items of top the for loop has taken
    parts,         \* answer_from_doc_index: local parts
    refs,          \* answer_from_doc_index: local refs
    total,         \* answer_from_doc_index: local total
    result,        \* value returned by answer_from_doc_index (None until then)
    pages_map,     \* extract_text_from_documents: local pages_map (page texts, keys 1..n)
    ct_text,       \* main.chunk_text: argument text, normalised
    ct_n,          \* main.chunk_text: local n
    ct_i,          \* main.chunk_text: local i
    counter,       \* main.chunk_text: local counter
    fs,            \* cleaning_tracker: the files, path -> content (None: cannot be read)
    cleaning_state,  \* cleaning_tracker: content of cleaning_state.json (None: no file)
    marked,        \* cleaning_tracker: <<path, content>> of every successful mark_cleaned
    filepath,      \* cleaning_tracker: argument of the last call
    already_cleaned, \* cleaning_tracker: value returned by the last is_already_cleaned
    choice,        \* interactive_menu: local choice
    _last_ai_response, \* main: global _last_ai_response
    doc_index      \* interactive_menu: argument doc_index (sequence of [fname, text])

chunk_vars == <<docs_text, chunk_size, overlap, doc_i, all_chunks,
                fname, txt, length, start, end, cid, chunks>>

qa_vars == <<question, top_k, concat_limit, top, t_i, parts, refs, total, result>>

stitch_vars == <<pages_map>>

ct_vars == <<ct_text, ct_n, ct_i, counter>>

tracker_vars == <<fs, cleaning_state, marked, filepath, already_cleaned>>

menu_vars == <<choice, _last_ai_response, doc_index>>

ext_vars == <<stitch_vars, ct_vars, tracker_vars, menu_vars>>

vars == <<docs_text, chunk_size, overlap, doc_i, all_chunks, index_struct, err,
          pc, fname, txt, length, start, end, cid, chunks,
          question, top_k, concat_limit, top, t_i, parts, refs, total, result,
          pages_map, ct_text, ct_n, ct_i, counter,
          fs, cleaning_state, marked, filepath, already_cleaned,
          choice, _last_ai_response, doc_index>>

----------------------------------------------------------------------------
(* Bounds of the model *)

MaxPieces == 3       \* a text is built from at most this many pieces
MaxChunkSize == 3    \* small chunk sizes range over -1..MaxChunkSize
MaxOverlap == 3      \* overlaps range over -1..MaxOverlap
MaxChunks == 8       \* the while loop is followed until it has emitted this many chunks

----------------------------------------------------------------------------
(* Characters *)

Min(a, b) == IF a < b THEN a ELSE b
Max(a, b) == IF a > b THEN a ELSE b

None == {}
Some(x) == {x}

WhitespaceChars == {" ", "\n", "\r", "\t"}
DigitChars == <<"0", "1", "2", "3", "4", "5", "6", "7", "8", "9">>
UpperChars == <<"A", "B", "C", "D", "E", "F", "G", "H", "I", "J", "K", "L", "M",
                "N", "O", "P", "Q", "R", "S", "T", "U", "V", "W", "X", "Y", "Z">>
LowerChars == <<"a", "b", "c", "d", "e", "f", "g", "h", "i", "j", "k", "l", "m",
                "n", "o", "p", "q", "r", "s", "t", "u", "v", "w", "x", "y", "z">>

IsSpace(c) == c \in WhitespaceChars
IsDigit(c) == \E d \in 1..10 : DigitChars[d] = c
DigitVal(c) == (CHOOSE d \in 1..10 : DigitChars[d] = c) - 1
Lower(c) == IF \E k \in 1..26 : UpperChars[k] = c
            THEN LowerChars[CHOOSE k \in 1..26 : UpperChars[k] = c]
            ELSE c
IsWord(c) == \/ IsDigit(c)
             \/ c = "_"
             \/ \E k \in 1..26 : LowerChars[k] = Lower(c)

(* Python's s[a:b] for a string s, negative indices included *)
PyIndex(n, i) == IF i < 0 THEN Max(0, n + i) ELSE Min(n, i)
PySlice(s, a, b) ==
    LET lo == PyIndex(Len(s), a)
        hi == PyIndex(Len(s), b)
    IN  IF lo >= hi THEN <<>> ELSE SubSeq(s, lo + 1, hi)

(* number of consecutive whitespace / digit characters of s from 1-based position i *)
RECURSIVE SpaceRun(_, _)
SpaceRun(s, i) == IF i <= Len(s) /\ IsSpace(s[i]) THEN 1 + SpaceRun(s, i + 1) ELSE 0

RECURSIVE DigitRun(_, _)
DigitRun(s, i) == IF i <= Len(s) /\ IsDigit(s[i]) THEN 1 + DigitRun(s, i + 1) ELSE 0

(* int() of a digit string *)
RECURSIVE ToInt(_)
ToInt(ds) == IF ds = <<>> THEN 0
             ELSE 10 * ToInt(SubSeq(ds, 1, Len(ds) - 1)) + DigitVal(ds[Len(ds)])

----------------------------------------------------------------------------
(* The page-marker pattern  \[PAGE\s+(\d+)\]  with re.IGNORECASE *)

MarkerWord == <<"p", "a", "g", "e">>

(* length of the match starting at position i of s, 0 when there is none *)
MarkerMatch(s, i) ==
    IF /\ i + 4 <= Len(s)
       /\ s[i] = "["
       /\ \A k \in 1..4 : Lower(s[i + k]) = MarkerWord[k]
    THEN LET sp == SpaceRun(s, i + 5)
             dg == DigitRun(s, i + 5 + sp)
             cl == i + 5 + sp + dg
         IN  IF sp >= 1 /\ dg >= 1 /\ cl <= Len(s) /\ s[cl] = "]"
             THEN cl - i + 1
             ELSE 0
    ELSE 0

(* the group (\d+) of the match of length m starting at i *)
MarkerDigits(s, i, m) ==
    LET sp == SpaceRun(s, i + 5)
    IN  SubSeq(s, i + 5 + sp, i + m - 2)

(* re.findall(pattern, snippet) followed by list(map(int, ...)) *)
RECURSIVE FindPages(_, _)
FindPages(s, i) ==
    IF i > Len(s) THEN <<>>
    ELSE LET m == MarkerMatch(s, i)
         IN  IF m > 0
             THEN <<ToInt(MarkerDigits(s, i, m))>> \o FindPages(s, i + m)
             ELSE FindPages(s, i + 1)

PageRefs(snippet) == FindPages(snippet, 1)

(* re.sub(pattern, "", snippet) *)
RECURSIVE RemoveFrom(_, _)
RemoveFrom(s, i) ==
    IF i > Len(s) THEN <<>>
    ELSE LET m == MarkerMatch(s, i)
         IN  IF m > 0
             THEN RemoveFrom(s, i + m)
             ELSE <<s[i]>> \o RemoveFrom(s, i + 1)

RemoveMarkers(snippet) == RemoveFrom(snippet, 1)

(* str.strip() *)
RECURSIVE LStrip(_)
LStrip(s) == IF s # <<>> /\ IsSpace(s[1]) THEN LStrip(Tail(s)) ELSE s

RECURSIVE RStrip(_)
RStrip(s) == IF s # <<>> /\ IsSpace(s[Len(s)])
             THEN RStrip(SubSeq(s, 1, Len(s) - 1))
             ELSE s

Strip(s) == RStrip(LStrip(s))

(* variant: the markers are removed but the result is not stripped *)
CleanSnippetNoStrip(snippet) == RemoveMarkers(snippet)

CleanSnippet(snippet) == Strip(RemoveMarkers(snippet))

----------------------------------------------------------------------------
(* Whitespace normalisation at the head of chunk_text_with_refs *)

(* re.sub(r"\r\n", "\n", full_text) *)
RECURSIVE SubCRLF(_)
SubCRLF(s) ==
    IF s = <<>> THEN <<>>
    ELSE IF Len(s) >= 2 /\ s[1] = "\r" /\ s[2] = "\n"
         THEN <<"\n">> \o SubCRLF(SubSeq(s, 3, Len(s)))
         ELSE <<s[1]>> \o SubCRLF(Tail(s))

RECURSIVE NewlineRun(_, _)
NewlineRun(s, i) == IF i <= Len(s) /\ s[i] = "\n" THEN 1 + NewlineRun(s, i + 1) ELSE 0

(* re.sub(r"\n{2,}", "\n\n", txt) *)
RECURSIVE SubNewlines(_, _)
SubNewlines(s, i) ==
    IF i > Len(s) THEN <<>>
    ELSE LET r == NewlineRun(s, i)
         IN  IF r >= 2
             THEN <<"\n", "\n">> \o SubNewlines(s, i + r)
             ELSE <<s[i]>> \o SubNewlines(s, i + 1)

Normalize(full_text) == SubNewlines(SubCRLF(full_text), 1)

----------------------------------------------------------------------------
(* The body of the while loop of chunk_text_with_refs *)

LoopCond(s, n) == s < n

WindowEnd(n, s, size) == Min(n, s + size)

(* variant: the next window starts one character late *)
NextStartSkip(e, ov) == IF e + 1 - ov < 0 THEN 0 ELSE e + 1 - ov

(* variant: the next window starts at end, ignoring overlap *)
NextStartNoOverlap(e, ov) == e

NextStart(e, ov) == IF e - ov < 0 THEN 0 ELSE e - ov

ChunkId(f, n) == f \o "::chunk_" \o ToString(n)

(* variant: cid advances for every window, dropped ones included *)
NextCidEveryWindow(n, clean) == n + 1

NextCid(n, clean) == IF clean # <<>> THEN n + 1 ELSE n

Emit(cs, f, n, page_refs, s, e, clean) ==
    IF clean # <<>>
    THEN Append(cs, [id |-> ChunkId(f, n + 1), file |-> f, pages |-> page_refs,
                     start |-> s, end |-> e, text |-> clean])
    ELSE cs

----------------------------------------------------------------------------
(* TfidfVectorizer(stop_words="english").fit_transform(corpus): the analyzer *)
(* lower-cases, takes the matches of \b\w\w+\b and drops the stop words.     *)

(* some entries of scikit-learn's English stop list *)
StopWords == {<<"a", "n">>, <<"a", "s">>, <<"a", "t">>, <<"b", "e">>,
              <<"t", "h", "e">>, <<"a", "n", "d">>, <<"a", "r", "e">>}

RECURSIVE WordRun(_, _)
WordRun(s, i) == IF i <= Len(s) /\ IsWord(s[i]) THEN 1 + WordRun(s, i + 1) ELSE 0

LowerText(s) == [k \in 1..Len(s) |-> Lower(s[k])]

RECURSIVE TokensFrom(_, _)
TokensFrom(s, i) ==
    IF i > Len(s) THEN <<>>
    ELSE LET r == WordRun(s, i)
         IN  IF r >= 2
             THEN <<SubSeq(s, i, i + r - 1)>> \o TokensFrom(s, i + r)
             ELSE IF r = 1 THEN TokensFrom(s, i + 1)
             ELSE TokensFrom(s, i + 1)

Analyze(text) == SelectSeq(TokensFrom(LowerText(text), 1), LAMBDA t : t \notin StopWords)

Vocabulary(corpus) == UNION {{Analyze(corpus[k])[j] : j \in 1..Len(Analyze(corpus[k]))}
                             : k \in 1..Len(corpus)}

(* one matrix row, before weighting: the number of occurrences of every
   vocabulary term in the text *)
TermCounts(text, vocab) ==
    LET toks == Analyze(text)
    IN  [t \in vocab |-> Cardinality({j \in 1..Len(toks) : toks[j] = t})]

Corpus(cs) == [k \in 1..Len(cs) |-> cs[k].text]

EmptyIndex == [chunks |-> <<>>, vectorizer |-> None, matrix |-> None]

FittedIndex(cs) ==
    LET corpus == Corpus(cs)
        vocab == Vocabulary(corpus)
    IN  [chunks |-> cs,
         vectorizer |-> Some([vocabulary |-> vocab]),
         matrix |-> Some([k \in 1..Len(corpus) |-> TermCounts(corpus[k], vocab)])]

----------------------------------------------------------------------------
(* Inputs *)

PageMarker(d) == <<"[", "P", "A", "G", "E", " ", d, "]">>

Pieces == {<<"a">>, <<" ">>, <<"\n">>, <<"\r">>, PageMarker("1"), PageMarker("2")}

RECURSIVE TextsOf(_)
TextsOf(n) == IF n = 0 THEN {<<>>}
              ELSE LET shorter == TextsOf(n - 1)
                   IN  shorter \cup {t \o p : t \in shorter, p \in Pieces}

ExampleText == PageMarker("1") \o <<"A", "A", "A">> \o PageMarker("2") \o <<"B", "B", "B">>

(* two and three blank lines between two characters *)
TwoBlankLines == <<"a", "\n", "\n", "\n", "a">>
ThreeBlankLines == <<"a", "\n", "\n", "\n", "\n", "a">>

Texts == TextsOf(MaxPieces) \cup {ExampleText, TwoBlankLines, ThreeBlankLines}

ShortTexts == {<<>>, <<" ">>, <<"a", "a">>}

Configs == {[chunk_size |-> c, overlap |-> o] : c \in -1..MaxChunkSize, o \in -1..MaxOverlap}
           \cup {[chunk_size |-> 9, overlap |-> o] : o \in 0..MaxOverlap}
           \cup {[chunk_size |-> 100, overlap |-> 0]}

DocSets == {<<>>}
           \cup {<<[fname |-> "d1", text |-> t]>> : t \in Texts}
           \cup {<<[fname |-> "d1", text |-> t], [fname |-> "d2", text |-> u]>>
                 : t \in ShortTexts, u \in ShortTexts}

ValidConfig == chunk_size > 0 /\ 0 <= overlap /\ overlap < chunk_size

----------------------------------------------------------------------------
(* Values of the variables of the parts of the program that are not running *)

StitchIdle == pages_map = <<>>

ChunkTextIdle ==
    /\ ct_text = <<>>
    /\ ct_n = 0
    /\ ct_i = 0
    /\ counter = 0

TrackerIdle ==
    /\ fs = <<>>
    /\ cleaning_state = None
    /\ marked = {}
    /\ filepath = ""
    /\ already_cleaned = None

MenuIdle ==
    /\ choice = ""
    /\ _last_ai_response = None
    /\ doc_index = <<>>

ExtIdle == StitchIdle /\ ChunkTextIdle /\ TrackerIdle /\ MenuIdle

----------------------------------------------------------------------------
(* State machine *)

Init ==
    /\ ExtIdle
    /\ docs_text \in DocSets
    /\ \E c \in Configs : chunk_size = c.chunk_size /\ overlap = c.overlap
    /\ doc_i = 0
    /\ all_chunks = <<>>
    /\ index_struct = None
    /\ err = ""
    /\ pc = "for"
    /\ fname = ""
    /\ txt = <<>>
    /\ length = 0
    /\ start = 0
    /\ end = 0
    /\ cid = 0
    /\ chunks = <<>>
    /\ question = <<>>
    /\ top_k = 0
    /\ concat_limit = 0
    /\ top = <<>>
    /\ t_i = 0
    /\ parts = <<>>
    /\ refs = <<>>
    /\ total = 0
    /\ result = None

(* chunk_and_index_documents takes the next item of docs_text and calls
   chunk_text_with_refs, which normalises the text and initialises its locals *)
chunk_text_with_refs_call ==
    /\ pc = "for"
    /\ doc_i < Len(docs_text)
    /\ doc_i' = doc_i + 1
    /\ fname' = docs_text[doc_i + 1].fname
    /\ txt' = Normalize(docs_text[doc_i + 1].text)
    /\ length' = Len(txt')
    /\ chunks' = <<>>
    /\ start' = 0
    /\ end' = 0
    /\ cid' = 0
    /\ pc' = "while"
    /\ UNCHANGED <<docs_text, chunk_size, overlap, all_chunks, index_struct, err>>
    /\ UNCHANGED qa_vars
    /\ UNCHANGED ext_vars

(* one iteration of the while loop of chunk_text_with_refs *)
chunk_text_with_refs_while ==
    /\ pc = "while"
    /\ LoopCond(start, length)
    /\ Len(chunks) < MaxChunks
    /\ LET e == WindowEnd(length, start, chunk_size)
           snippet == PySlice(txt, start, e)
           page_refs == PageRefs(snippet)
           clean_snippet == CleanSnippet(snippet)
       IN  /\ end' = e
           /\ cid' = NextCid(cid, clean_snippet)
           /\ chunks' = Emit(chunks, fname, cid, page_refs, start, e, clean_snippet)
           /\ start' = NextStart(e, overlap)
    /\ UNCHANGED <<docs_text, chunk_size, overlap, doc_i, all_chunks, index_struct,
                   err, pc, fname, txt, length>>
    /\ UNCHANGED qa_vars
    /\ UNCHANGED ext_vars

(* the loop condition fails: chunk_text_with_refs returns chunks and
   chunk_and_index_documents extends all_chunks with them *)
chunk_text_with_refs_return ==
    /\ pc = "while"
    /\ ~LoopCond(start, length)
    /\ all_chunks' = all_chunks \o chunks
    /\ pc' = "for"
    /\ UNCHANGED <<docs_text, chunk_size, overlap, doc_i, index_struct, err,
                   fname, txt, length, start, end, cid, chunks>>
    /\ UNCHANGED qa_vars
    /\ UNCHANGED ext_vars

(* after the for loop: build the TF-IDF index over the chunk texts *)
chunk_and_index_documents_build ==
    /\ pc = "for"
    /\ doc_i = Len(docs_text)
    /\ IF Corpus(all_chunks) = <<>>
       THEN /\ index_struct' = Some(EmptyIndex)
            /\ err' = err
            /\ pc' = "returned"
       ELSE IF Vocabulary(Corpus(all_chunks)) = {}
       THEN /\ index_struct' = index_struct
            /\ err' = "ValueError"
            /\ pc' = "raised"
       ELSE /\ index_struct' = Some(FittedIndex(all_chunks))
            /\ err' = err
            /\ pc' = "returned"
    /\ UNCHANGED <<docs_text, chunk_size, overlap, doc_i, all_chunks,
                   fname, txt, length, start, end, cid, chunks>>
    /\ UNCHANGED qa_vars
    /\ UNCHANGED ext_vars

Next ==
    \/ chunk_text_with_refs_call
    \/ chunk_text_with_refs_while
    \/ chunk_text_with_refs_return
    \/ chunk_and_index_documents_build

Spec == Init /\ [][Next]_vars

----------------------------------------------------------------------------
(* Properties of the chunker *)

(* chunk_text_with_refs has returned for the document taken last *)
Returned == doc_i > 0 /\ pc # "while"

(* 0-based positions lying in the [start, end) range of some chunk of cs *)
Covered(cs) == UNION {cs[k].start .. (cs[k].end - 1) : k \in 1..Len(cs)}

(* 1-based position p of s is a character of a [PAGE n] marker of s *)
InMarker(s, p) == \E i \in 1..p : MarkerMatch(s, i) > 0 /\ p < i + MarkerMatch(s, i)

(* C1: under a valid configuration, once a window has reached
   end == len(text) it is the last one: the loop body does not run again. *)
C1_LastWindowIsLast ==
    [][(ValidConfig /\ pc = "while" /\ length > 0 /\ end = length)
         => ~chunk_text_with_refs_while]_vars

(* C2 as stated: under a valid configuration the ranges of the returned
   chunks cover exactly [0, len(text)) and consecutive chunks leave no gap. *)
C2_ChunksCoverText ==
    (ValidConfig /\ Returned) =>
        /\ Covered(chunks) = 0 .. (length - 1)
        /\ \A k \in 1..(Len(chunks) - 1) : chunks[k + 1].start <= chunks[k].end

(* C2 amended: under a valid configuration every position before the end of
   the last processed window lies in the range of an emitted chunk or is a
   whitespace or [PAGE n] marker character (it lay in a window dropped as
   empty), and when the chunker returns that end is len(text). *)
C2_CoverageUpToDroppedWindows ==
    ValidConfig =>
        /\ \A p \in 0 .. (end - 1) :
              \/ p \in Covered(chunks)
              \/ IsSpace(txt[p + 1])
              \/ InMarker(txt, p + 1)
        /\ Returned => end = length

(* a returned chunk sequence that leaves part of the text uncovered *)
C2_Witness ==
    /\ ValidConfig /\ Returned
    /\ Len(chunks) >= 2
    /\ Covered(chunks) # 0 .. (length - 1)

(* C3 as stated: consecutive returned chunks overlap by exactly overlap. *)
C3_ExactOverlap ==
    (ValidConfig /\ Returned) =>
        \A k \in 1..(Len(chunks) - 1) : chunks[k].end - chunks[k + 1].start = overlap

(* the window that follows a chunk ending at e is empty after cleaning *)
FollowingWindowDropped(e) ==
    LET s == Max(0, e - overlap)
    IN  Strip(RemoveMarkers(PySlice(txt, s, Min(length, s + chunk_size)))) = <<>>

(* C3 amended: for consecutive chunks c[k], c[k+1] under a valid
   configuration, c[k+1] starts at c[k].end - overlap (clamped at 0) exactly
   when the window starting there is non-empty after cleaning; when that
   window is dropped c[k+1] starts later, so the two chunks overlap by less
   than overlap.  In a returned sequence no clamping occurs. *)
C3_OverlapUnlessDropped ==
    ValidConfig =>
        \A k \in 1..(Len(chunks) - 1) :
            /\ IF FollowingWindowDropped(chunks[k].end)
               THEN chunks[k + 1].start > Max(0, chunks[k].end - overlap)
               ELSE chunks[k + 1].start = Max(0, chunks[k].end - overlap)
            /\ Returned => chunks[k].end - overlap >= 0

(* a returned sequence with one pair overlapping exactly and one pair
   separated by a dropped window *)
C3_Witness ==
    /\ ValidConfig /\ Returned
    /\ \E k \in 1..(Len(chunks) - 1) : chunks[k].end - chunks[k + 1].start = overlap
    /\ \E k \in 1..(Len(chunks) - 1) :
          /\ FollowingWindowDropped(chunks[k].end)
          /\ chunks[k].end - chunks[k + 1].start < overlap

(* C4: with an invalid configuration the chunker never reaches its window
   loop: once called it has failed with ConfigError and emitted nothing. *)
C4_ConfigErrorBeforeWork ==
    (~ValidConfig /\ doc_i > 0) =>
        /\ pc # "while"
        /\ err = "ConfigError"
        /\ chunks = <<>>

(* C5: a text shorter than chunk_size and non-empty after cleaning gives
   exactly one chunk, [0, len(text)), for every valid overlap. *)
C5_ShortTextOneChunk ==
    (ValidConfig /\ doc_i > 0 /\ length < chunk_size /\ Strip(RemoveMarkers(txt)) # <<>>) =>
        /\ Len(chunks) <= 1
        /\ \A k \in 1..Len(chunks) : chunks[k].start = 0 /\ chunks[k].end = length
        /\ Returned => Len(chunks) = 1

(* C6: for the empty text and for a text of [PAGE n] markers and whitespace
   only, no chunk is ever emitted, no error is raised, and the loop is left
   once the window reaching len(text) has been processed. *)
C6_OnlyMarkersNoChunks ==
    (ValidConfig /\ doc_i > 0 /\ Strip(RemoveMarkers(txt)) = <<>>) =>
        /\ chunks = <<>>
        /\ err = ""
        /\ (pc = "while" /\ length > 0 /\ end = length) => ~(start < length)

(* C7: no chunk has empty text, and the k-th emitted chunk carries the id
   <file>::chunk_<k>: dropped windows consume no sequence number. *)
C7_ConsecutiveIds ==
    /\ cid = Len(chunks)
    /\ \A k \in 1..Len(chunks) :
          /\ chunks[k].text # <<>>
          /\ chunks[k].id = chunks[k].file \o "::chunk_" \o ToString(k)

(* a chunk emitted after a dropped window *)
C7_Witness ==
    /\ ValidConfig /\ Returned
    /\ \E k \in 1..(Len(chunks) - 1) :
          /\ chunks[k + 1].start > chunks[k].end
          /\ chunks[k + 1].id = fname \o "::chunk_" \o ToString(k + 1)

(* C8: no page number occurs twice in the pages of a chunk. *)
C8_PagesUnique ==
    \A k \in 1..Len(chunks) :
        \A i, j \in 1..Len(chunks[k].pages) :
            i # j => chunks[k].pages[i] # chunks[k].pages[j]

(* C9: the text of every chunk is its window with every [PAGE n] marker
   removed and then stripped, and "[PAGE 1]AAA[PAGE 2]BBB" with
   chunk_size=100, overlap=0 gives the single chunk pages=[1,2], text="AAABBB". *)
C9_MarkerExtraction ==
    /\ \A k \in 1..Len(chunks) :
          chunks[k].text = Strip(RemoveMarkers(PySlice(txt, chunks[k].start, chunks[k].end)))
    /\ (Returned /\ docs_text[doc_i].text = ExampleText /\ chunk_size = 100 /\ overlap = 0) =>
          chunks = <<[id |-> "d1::chunk_1", file |-> "d1", pages |-> <<1, 2>>,
                      start |-> 0, end |-> 22, text |-> <<"A", "A", "A", "B", "B", "B">>]>>

(* the example has been chunked *)
C9_Witness ==
    /\ Returned
    /\ docs_text[doc_i].text = ExampleText /\ chunk_size = 100 /\ overlap = 0
    /\ Len(chunks) = 1
    /\ chunks[1].pages = <<1, 2>>

(* C10: building the index over an empty chunk sequence fails with
   EmptyCorpusError and returns no index structure. *)
C10_EmptyCorpusError ==
    (pc \in {"returned", "raised"} /\ all_chunks = <<>>) =>
        /\ err = "EmptyCorpusError"
        /\ index_struct = None

(* the text handed to the chunk_text_with_refs call in progress *)
FullText == docs_text[doc_i].text

HasCR(s) == \E k \in 1..Len(s) : s[k] = "\r"

(* C22: normalisation turns every CRLF and every lone CR into LF, so the
   normalised text, over which the chunk offsets are computed, contains no
   carriage return. *)
C22_NoCarriageReturn ==
    doc_i > 0 => ~HasCR(txt)

(* a run of r newline characters between two other characters is r - 1
   blank lines: runs of 3 or more blank lines become one blank line, every
   other character is copied *)
RECURSIVE CollapseBlankRuns(_, _)
CollapseBlankRuns(s, i) ==
    IF i > Len(s) THEN <<>>
    ELSE LET r == NewlineRun(s, i)
         IN  IF r - 1 >= 3
             THEN <<"\n", "\n">> \o CollapseBlankRuns(s, i + r)
             ELSE IF r >= 1
             THEN SubSeq(s, i, i + r - 1) \o CollapseBlankRuns(s, i + r)
             ELSE <<s[i]>> \o CollapseBlankRuns(s, i + 1)

(* C23: normalisation collapses each run of 3 or more blank lines to one
   blank line and leaves everything else, shorter runs of blank lines and
   page markers included, as it was (for a text without carriage returns
   that neither starts nor ends with a newline). *)
C23_CollapseOnlyLongBlankRuns ==
    (/\ doc_i > 0
     /\ ~HasCR(FullText)
     /\ FullText # <<>>
     /\ FullText[1] # "\n"
     /\ FullText[Len(FullText)] # "\n") =>
        txt = CollapseBlankRuns(FullText, 1)

----------------------------------------------------------------------------
(* retrieve_top_chunks *)

TextLimit == 2000       \* chunk["text"][:2000]
SnippetLimit == 500     \* snippet[:500]

MaxCorpus == 2          \* an index is built over at most this many chunks
MaxTopK == 2            \* top_k ranges over 1..MaxTopK
MaxConcatLimit == 12    \* concat_limit ranges over 0..MaxConcatLimit
MaxResults == 3         \* a ranked result list has at most this many results

(* number of stored non-zero entries of the matrix m *)
Nnz(m) == Cardinality({<<k, t>> \in (1..Len(m)) \X (UNION {DOMAIN m[k] : k \in 1..Len(m)})
                         : t \in DOMAIN m[k] /\ m[k][t] > 0})

(* bool(matrix) for the scipy sparse matrix returned by fit_transform:
   __bool__ is nnz != 0 for the shape (1, 1) and raises ValueError
   ("The truth value of an array with more than one element is ambiguous")
   for every other shape *)
MatrixTruth(m) ==
    IF Len(m) = 1 /\ Cardinality(DOMAIN m[1]) = 1
    THEN IF Nnz(m) # 0 THEN "True" ELSE "False"
    ELSE "ValueError"

(* the guard
     if not index_struct or not index_struct.get("matrix")
        or index_struct.get("matrix").shape[0] == 0: return []
   "empty": return [];  "ValueError": the truth test raises;  "score": go on *)
RetrieveGuard(ix_opt) ==
    IF ix_opt = None THEN "empty"
    ELSE LET ix == CHOOSE x \in ix_opt : TRUE
         IN  IF ix.matrix = None THEN "empty"
             ELSE LET m == CHOOSE x \in ix.matrix : TRUE
                  IN  CASE MatrixTruth(m) = "ValueError" -> "ValueError"
                        [] MatrixTruth(m) = "False" -> "empty"
                        [] OTHER -> IF Len(m) = 0 THEN "empty" ELSE "score"

(* the l2-normalised tf-idf vector of term counts over a one-term
   vocabulary: its entry is 1 when the term occurs and 0 when it does not *)
Normalised(counts) == [t \in DOMAIN counts |-> IF counts[t] > 0 THEN 1 ELSE 0]

(* dot product of two vectors over a one-term vocabulary *)
Dot(u, v) == LET t == CHOOSE x \in DOMAIN u : TRUE IN u[t] * v[t]

(* variant: the query is fitted, its terms join the vocabulary *)
FitTransformed(ix, q) ==
    [ix EXCEPT !.vectorizer =
        {[vocabulary |-> v.vocabulary \cup {Analyze(q)[j] : j \in 1..Len(Analyze(q))}]
         : v \in ix.vectorizer}]

(* the index after index_struct["vectorizer"].transform([question]):
   transform looks terms up in the fitted vocabulary, drops the others, and
   assigns nothing in the vectorizer, the matrix or the chunk list *)
Transformed(ix, q) == ix

(* linear_kernel(vectorizer.transform([question]), matrix).flatten(); the
   guard lets only a (1, 1) matrix through, so the vocabulary has one term *)
CosineSimilarities(q, ix) ==
    LET vocab == (CHOOSE x \in ix.vectorizer : TRUE).vocabulary
        m == CHOOSE x \in ix.matrix : TRUE
        vec == Normalised(TermCounts(q, vocab))
    IN  [k \in 1..Len(m) |-> Dot(vec, Normalised(m[k]))]

(* the results np.argsort(-scores) may give: every ordering of the indices
   by descending score (the default sort kind is not stable) *)
ArgsortDesc(scores) ==
    {p \in [1..Len(scores) -> 1..Len(scores)] :
        /\ \A i, j \in 1..Len(scores) : i # j => p[i] # p[j]
        /\ \A i \in 1..(Len(scores) - 1) : scores[p[i]] >= scores[p[i + 1]]}

(* variant: the index list is padded to k entries by repeating the last one *)
TopIndicesPadded(order, k) ==
    [j \in 1..k |-> IF j <= Len(order) THEN order[j] ELSE order[Len(order)]]

(* [:top_k] *)
TopIndices(order, k) == PySlice(order, 0, k)

(* the list built by the loop over top_indices *)
Results(ix, scores, top_indices) ==
    [j \in 1..Len(top_indices) |->
        LET chunk == ix.chunks[top_indices[j]]
        IN  [id |-> chunk.id, file |-> chunk.file, pages |-> chunk.pages,
             text |-> PySlice(chunk.text, 0, TextLimit),
             score |-> scores[top_indices[j]]]]

----------------------------------------------------------------------------
(* answer_from_doc_index *)

(* "No matching content found in documents." *)
Sentinel ==
    <<"N", "o", " ", "m", "a", "t", "c", "h", "i", "n", "g", " ", "c", "o",
      "n", "t", "e", "n", "t", " ", "f", "o", "u", "n", "d", " ", "i", "n",
      " ", "d", "o", "c", "u", "m", "e", "n", "t", "s", ".">>

(* variant: the empty result list is not recognised *)
NoTopNever(t) == FALSE

(* not top *)
NoTop(t) == t = <<>>

(* add = snippet if total + len(snippet) <= concat_limit
         else snippet[: max(0, concat_limit - total)] *)
Add(snippet, tot, limit) ==
    IF tot + Len(snippet) <= limit
    THEN snippet
    ELSE PySlice(snippet, 0, Max(0, limit - tot))

(* variant: the loop never breaks *)
BreaksNever(tot, limit) == FALSE

(* if total >= concat_limit: break *)
Breaks(tot, limit) == tot >= limit

(* variant: the snippet is also cut to the answer budget *)
ReferenceBudgeted(t) ==
    [file |-> t.file, pages |-> t.pages,
     snippet |-> PySlice(Strip(t.text), 0, Min(SnippetLimit, concat_limit)),
     score |-> t.score]

(* {"file": ..., "pages": ..., "snippet": snippet[:500], "score": ...} *)
Reference(t) == [file |-> t.file, pages |-> t.pages,
                 snippet |-> PySlice(Strip(t.text), 0, SnippetLimit), score |-> t.score]

(* "\n\n".join(parts) *)
RECURSIVE Join(_)
Join(ps) == IF ps = <<>> THEN <<>>
            ELSE IF Len(ps) = 1 THEN ps[1]
            ELSE ps[1] \o <<"\n", "\n">> \o Join(Tail(ps))

----------------------------------------------------------------------------
(* Inputs of retrieval and answer assembly *)

HelloWorld == <<"H", "E", "L", "L", "O", "W", "O", "R", "L", "D">>
SecondSecond == <<"S", "E", "C", "O", "N", "D", "S", "E", "C", "O", "N", "D">>

CorpusTexts == {<<"a", "a">>, <<"b", "b">>, <<"a", "a", " ", "b", "b">>,
                HelloWorld, SecondSecond}

Questions == {<<"a", "a">>, <<"b", "b">>, <<"z", "z">>, <<"a", "a", " ", "b", "b">>}

(* the chunk sequences chunk_text_with_refs produces for the corpus texts *)
ChunksOf(texts) ==
    [k \in 1..Len(texts) |->
        [id |-> ChunkId("d1", k), file |-> "d1", pages |-> <<k>>,
         start |-> 0, end |-> Len(texts[k]), text |-> texts[k]]]

RECURSIVE SeqsUpTo(_, _)
SeqsUpTo(S, n) == IF n = 0 THEN {<<>>}
                  ELSE LET shorter == SeqsUpTo(S, n - 1)
                       IN  shorter \cup {Append(q, x) : q \in shorter, x \in S}

(* the values chunk_and_index_documents returns, and no index at all *)
Indexes == {None, Some(EmptyIndex)}
           \cup {Some(FittedIndex(ChunksOf(ts))) : ts \in SeqsUpTo(CorpusTexts, MaxCorpus) \ {<<>>}}

(* ranked result lists: the chunks of a corpus, the first j with score 1
   and the others with score 0 *)
RankedLists ==
    {[k \in 1..Len(ts) |->
        [id |-> ChunkId("d1", k), file |-> "d1", pages |-> <<k>>,
         text |-> PySlice(ts[k], 0, TextLimit), score |-> IF k <= j THEN 1 ELSE 0]]
     : ts \in SeqsUpTo(CorpusTexts, MaxResults), j \in 0..MaxResults}

----------------------------------------------------------------------------
(* State machine of answer_from_doc_index *)

ChunkerIdle ==
    /\ docs_text = <<>>
    /\ chunk_size = 0
    /\ overlap = 0
    /\ doc_i = 0
    /\ all_chunks = <<>>
    /\ fname = ""
    /\ txt = <<>>
    /\ length = 0
    /\ start = 0
    /\ end = 0
    /\ cid = 0
    /\ chunks = <<>>

(* answer_from_doc_index(question, index_struct, top_k, concat_limit) is called *)
InitQA ==
    /\ ChunkerIdle
    /\ ExtIdle
    /\ index_struct \in Indexes
    /\ question \in Questions
    /\ top_k \in 1..MaxTopK
    /\ concat_limit \in 0..MaxConcatLimit
    /\ err = ""
    /\ pc = "ask"
    /\ top = <<>>
    /\ t_i = 0
    /\ parts = <<>>
    /\ refs = <<>>
    /\ total = 0
    /\ result = None

(* answer_from_doc_index after retrieve_top_chunks has returned top *)
InitAssemble ==
    /\ ChunkerIdle
    /\ ExtIdle
    /\ index_struct = None
    /\ question = <<>>
    /\ top_k = 0
    /\ concat_limit \in 0..MaxConcatLimit
    /\ err = ""
    /\ pc = "got_top"
    /\ top \in RankedLists
    /\ t_i = 0
    /\ parts = <<>>
    /\ refs = <<>>
    /\ total = 0
    /\ result = None

(* top = retrieve_top_chunks(question, index_struct, top_k=top_k) *)
retrieve_top_chunks ==
    /\ pc = "ask"
    /\ CASE RetrieveGuard(index_struct) = "empty" ->
              /\ top' = <<>>
              /\ err' = err
              /\ pc' = "got_top"
              /\ index_struct' = index_struct
         [] RetrieveGuard(index_struct) = "ValueError" ->
              /\ top' = top
              /\ err' = "ValueError"
              /\ pc' = "raised"
              /\ index_struct' = index_struct
         [] OTHER ->
              LET ix == CHOOSE x \in index_struct : TRUE
                  cosine_similarities == CosineSimilarities(question, ix)
              IN  \E order \in ArgsortDesc(cosine_similarities) :
                     /\ top' = Results(ix, cosine_similarities, TopIndices(order, top_k))
                     /\ err' = err
                     /\ pc' = "got_top"
                     /\ index_struct' = Some(Transformed(ix, question))
    /\ UNCHANGED <<question, top_k, concat_limit, t_i, parts, refs, total, result>>
    /\ UNCHANGED chunk_vars
    /\ UNCHANGED ext_vars

(* if not top: return the sentinel answer; otherwise parts, refs, total = [], [], 0 *)
answer_from_doc_index_top ==
    /\ pc = "got_top"
    /\ IF NoTop(top)
       THEN /\ result' = Some([answer |-> Sentinel, references |-> <<>>])
            /\ pc' = "answered"
       ELSE /\ result' = result
            /\ pc' = "loop"
    /\ parts' = <<>>
    /\ refs' = <<>>
    /\ total' = 0
    /\ t_i' = 0
    /\ UNCHANGED <<index_struct, err, question, top_k, concat_limit, top>>
    /\ UNCHANGED chunk_vars
    /\ UNCHANGED ext_vars

(* one iteration of  for t in top *)
answer_from_doc_index_for ==
    /\ pc = "loop"
    /\ t_i < Len(top)
    /\ LET t == top[t_i + 1]
           snippet == Strip(t.text)
           add == Add(snippet, total, concat_limit)
       IN  /\ parts' = IF add # <<>> THEN Append(parts, add) ELSE parts
           /\ total' = IF add # <<>> THEN total + Len(add) ELSE total
           /\ refs' = Append(refs, Reference(t))
           /\ t_i' = t_i + 1
           /\ pc' = IF Breaks(total', concat_limit) THEN "join" ELSE "loop"
    /\ UNCHANGED <<index_struct, err, question, top_k, concat_limit, top, result>>
    /\ UNCHANGED chunk_vars
    /\ UNCHANGED ext_vars

(* return {"answer": "\n\n".join(parts), "references": refs} *)
answer_from_doc_index_return ==
    /\ \/ pc = "join"
       \/ pc = "loop" /\ t_i = Len(top)
    /\ result' = Some([answer |-> Join(parts), references |-> refs])
    /\ pc' = "answered"
    /\ UNCHANGED <<index_struct, err, question, top_k, concat_limit, top, t_i,
                   parts, refs, total>>
    /\ UNCHANGED chunk_vars
    /\ UNCHANGED ext_vars

NextAssemble ==
    \/ answer_from_doc_index_top
    \/ answer_from_doc_index_for
    \/ answer_from_doc_index_return

NextQA ==
    \/ retrieve_top_chunks
    \/ answer_from_doc_index_top
    \/ answer_from_doc_index_for
    \/ answer_from_doc_index_return

SpecQA == InitQA /\ [][NextQA]_vars

SpecAssemble == InitAssemble /\ [][NextAssemble]_vars

----------------------------------------------------------------------------
(* Properties of retrieval and answer assembly *)

(* no index, or the structure returned for an empty corpus *)
IndexMissing == index_struct = None \/ \E ix \in index_struct : ix.matrix = None

(* an index fitted over at least one chunk *)
IndexFitted == \E ix \in index_struct : ix.chunks # <<>> /\ ix.matrix # None

IndexChunks == (CHOOSE ix \in index_struct : TRUE).chunks

Terms(text) == {Analyze(text)[j] : j \in 1..Len(Analyze(text))}

(* position of the chunk with the given id in the corpus of the index *)
CorpusPos(id) == CHOOSE k \in 1..Len(IndexChunks) : IndexChunks[k].id = id

(* q occurs in text as a contiguous substring *)
Contains(text, q) ==
    \E o \in 0..(Len(text) - Len(q)) : SubSeq(text, o + 1, o + Len(q)) = q

SentinelAnswer == [answer |-> Sentinel, references |-> <<>>]

(* C11: retrieval and answer assembly against a missing index fail
   explicitly: an error is raised and the no-match answer is not returned. *)
C11_MissingIndexFails ==
    (IndexMissing /\ pc # "ask") =>
        /\ err # ""
        /\ result # Some(SentinelAnswer)

(* C12: a query sharing no term with any chunk of a non-empty index makes
   retrieve return the empty sequence, and the answer is then the sentinel
   text with an empty reference list. *)
C12_NoMatchIsEmpty ==
    (/\ IndexFitted
     /\ pc # "ask"
     /\ \A k \in 1..Len(IndexChunks) : Terms(question) \cap Terms(IndexChunks[k].text) = {}) =>
        /\ err = ""
        /\ top = <<>>
        /\ pc = "answered" => result = Some(SentinelAnswer)

(* C13: for a non-empty index retrieve returns a sequence sorted by
   descending score in which chunks of equal score (such as two chunks with
   identical text) appear in ascending corpus order. *)
C13_RankedByScore ==
    (IndexFitted /\ pc # "ask") =>
        /\ err = ""
        /\ \A i, j \in 1..Len(top) :
              i < j => /\ top[i].score >= top[j].score
                       /\ top[i].score = top[j].score
                            => CorpusPos(top[i].id) < CorpusPos(top[j].id)

(* C14: retrieve returns at most top_k results, and they refer to distinct
   chunks of the corpus of the index. *)
C14_AtMostTopK ==
    (pc \notin {"ask", "raised"}) =>
        /\ Len(top) <= top_k
        /\ \A i, j \in 1..Len(top) : i # j => top[i].id # top[j].id
        /\ \A i \in 1..Len(top) :
              \E k \in 1..Len(IndexChunks) :
                  /\ IndexChunks[k].id = top[i].id
                  /\ IndexChunks[k].file = top[i].file
                  /\ IndexChunks[k].text = top[i].text

(* retrieve has returned a result although top_k asked for more *)
C14_Witness ==
    /\ pc = "got_top"
    /\ Len(top) = 1
    /\ top_k > Len(top)
    /\ top[1].id = IndexChunks[1].id

(* C16: when one chunk contains the exact query text (with a retained term)
   and another chunk shares no term with the query, retrieve scores the
   first strictly higher and ranks it before the second. *)
C16_Discrimination ==
    (/\ IndexFitted
     /\ pc # "ask"
     /\ Terms(question) # {}
     /\ \E k \in 1..Len(IndexChunks) : Contains(IndexChunks[k].text, question)
     /\ \E k \in 1..Len(IndexChunks) : Terms(question) \cap Terms(IndexChunks[k].text) = {}) =>
        /\ err = ""
        /\ \A i, j \in 1..Len(top) :
              (/\ Contains(top[i].text, question)
               /\ Terms(question) \cap Terms(top[j].text) = {})
                  => (top[i].score > top[j].score /\ i < j)

(* C24: the index is immutable once built: no step of a retrieve or answer
   call, whatever the query (terms absent from the vocabulary included),
   changes the chunk list, the vocabulary or the vectors of the index. *)
C24_IndexImmutable ==
    [][index_struct' = index_struct]_vars

(* a query with a term outside the vocabulary has been scored and answered *)
C24_Witness ==
    /\ pc = "answered"
    /\ IndexFitted
    /\ RetrieveGuard(index_struct) = "score"
    /\ top # <<>>
    /\ \E v \in (CHOOSE ix \in index_struct : TRUE).vectorizer :
           Terms(question) \ v.vocabulary # {}

(* C17: for a non-empty ranked result list and concat_limit > 0 the answer
   text has at most concat_limit characters. *)
C17_AnswerBounded ==
    (pc = "answered" /\ top # <<>> /\ concat_limit > 0) =>
        \A r \in result : Len(r.answer) <= concat_limit

(* C18: with concat_limit = 10 and the ranked chunks "HELLOWORLD" then
   "SECONDSECOND" the answer text is "HELLOWORLD" and the second chunk still
   yields a reference with its score. *)
C18_BudgetAccounting ==
    (/\ pc = "answered"
     /\ concat_limit = 10
     /\ Len(top) = 2
     /\ top[1].text = HelloWorld
     /\ top[2].text = SecondSecond) =>
        \A r \in result :
            /\ r.answer = HelloWorld
            /\ Len(r.references) = 2
            /\ r.references[2].score = top[2].score
            /\ r.references[2].snippet = SecondSecond

(* C19: the references are, in rank order, exactly one per result the loop
   has considered, a prefix of the ranked results; the loop goes on only
   while total < concat_limit, and it ends with the results exhausted or
   total >= concat_limit. *)
C19_ReferencesArePrefix ==
    (pc \in {"loop", "join", "answered"} /\ top # <<>>) =>
        /\ t_i <= Len(top)
        /\ refs = [k \in 1..t_i |->
                     [file |-> top[k].file, pages |-> top[k].pages,
                      snippet |-> SubSeq(Strip(top[k].text), 1,
                                         Min(500, Len(Strip(top[k].text)))),
                      score |-> top[k].score]]
        /\ (pc = "loop" /\ t_i > 0) => total < concat_limit
        /\ pc = "join" => total >= concat_limit
        /\ pc = "answered" =>
              /\ t_i = Len(top) \/ total >= concat_limit
              /\ \A r \in result : r.references = refs

(* the loop stopped after two of three results *)
C19_Witness ==
    /\ pc = "answered"
    /\ Len(top) = 3
    /\ Len(refs) = 2
    /\ total >= concat_limit
    /\ result # None

(* C20: an empty ranked result list gives exactly the sentinel text with an
   empty reference list; a non-empty one never gives an empty reference list. *)
C20_SentinelIffEmpty ==
    pc = "answered" =>
        /\ top = <<>> =>
              \A r \in result :
                  r.answer = Sentinel /\ Len(r.answer) = 39 /\ r.references = <<>>
        /\ top # <<>> => \A r \in result : r.references # <<>>
        /\ result # None

(* the sentinel answer has been returned for an empty result list *)
C20_Witness ==
    /\ pc = "answered"
    /\ top = <<>>
    /\ result = Some(SentinelAnswer)

----------------------------------------------------------------------------
(* The two limits of answer_from_doc_index: concat_limit and snippet[:500] *)

DefaultConcatLimit == 3000   \* concat_limit: int = 3000

MaxLimitResults == 2         \* ranked lists of SpecLimits have at most this many results

(* a chunk text two characters longer than the snippet limit *)
LongText == [k \in 1..(SnippetLimit + 2) |-> IF k <= SnippetLimit THEN "x" ELSE "y"]

LimitTexts == {<<"a", "a">>, HelloWorld, LongText}

ConcatLimits == {0, 3, SnippetLimit, SnippetLimit + 1, DefaultConcatLimit}

LimitRankedLists ==
    {[k \in 1..Len(ts) |->
        [id |-> ChunkId("d1", k), file |-> "d1", pages |-> <<k>>,
         text |-> PySlice(ts[k], 0, TextLimit), score |-> IF k <= j THEN 1 ELSE 0]]
     : ts \in SeqsUpTo(LimitTexts, MaxLimitResults), j \in 0..1}

(* answer_from_doc_index after retrieve_top_chunks has returned top, with
   texts and limits on both sides of the snippet limit *)
InitLimits ==
    /\ ChunkerIdle
    /\ ExtIdle
    /\ index_struct = None
    /\ question = <<>>
    /\ top_k = 0
    /\ concat_limit \in ConcatLimits
    /\ err = ""
    /\ pc = "got_top"
    /\ top \in LimitRankedLists
    /\ t_i = 0
    /\ parts = <<>>
    /\ refs = <<>>
    /\ total = 0
    /\ result = None

SpecLimits == InitLimits /\ [][NextAssemble]_vars

RECURSIVE SumLen(_)
SumLen(ps) == IF ps = <<>> THEN 0 ELSE Len(ps[1]) + SumLen(Tail(ps))

(* the parts after k results: each trimmed text, cut only by what is left
   of concat_limit *)
RECURSIVE BudgetedParts(_)
BudgetedParts(k) ==
    IF k = 0 THEN <<>>
    ELSE LET before == BudgetedParts(k - 1)
             room == concat_limit - SumLen(before)
             trimmed == Strip(top[k].text)
             piece == IF Len(trimmed) <= room THEN trimmed
                      ELSE SubSeq(trimmed, 1, Max(0, room))
         IN  IF piece # <<>> THEN Append(before, piece) ELSE before

(* C21: concat_limit and the snippet limit are independent: the snippet of
   every reference is the first 500 characters of the trimmed chunk text
   whatever concat_limit is and however much of the chunk went into the
   answer, and the parts of the answer are the trimmed texts cut only by
   concat_limit, never by the snippet limit. *)
C21_IndependentBudgets ==
    (pc \in {"loop", "join", "answered"} /\ top # <<>>) =>
        /\ \A k \in 1..Len(refs) :
              LET trimmed == Strip(top[k].text)
              IN  refs[k].snippet = SubSeq(trimmed, 1, Min(SnippetLimit, Len(trimmed)))
        /\ parts = BudgetedParts(t_i)

(* a chunk longer than the snippet limit gave a full snippet although the
   budget let only a shorter part into the answer *)
C21_Witness ==
    /\ pc = "answered"
    /\ Len(refs) = 1
    /\ Len(refs[1].snippet) = SnippetLimit
    /\ parts # <<>>
    /\ total < SnippetLimit

----------------------------------------------------------------------------
(* extract_text_from_documents: stitching the pages of one document *)

DefaultChunkSize == 1200     \* chunk_size: int = 1200
DefaultOverlap == 250        \* overlap: int = 250

MaxPages == 2                \* a document has at most this many pages

(* f"{pno}" *)
RECURSIVE Digits(_)
Digits(p) == IF p < 10 THEN <<DigitChars[p + 1]>>
             ELSE Digits(p \div 10) \o <<DigitChars[(p % 10) + 1]>>

(* f"[PAGE {pno}]\n{pages_map[pno]}\n" *)
PagePiece(pno, page_text) ==
    <<"[", "P", "A", "G", "E", " ">> \o Digits(pno) \o <<"]", "\n">>
        \o page_text \o <<"\n">>

RECURSIVE Ascending(_)
Ascending(keys) ==
    IF keys = {} THEN <<>>
    ELSE LET least == CHOOSE k \in keys : \A j \in keys : k <= j
         IN  <<least>> \o Ascending(keys \ {least})

(* variant: the pages are taken in descending order *)
PageOrderDescending(pm) ==
    LET asc == Ascending(DOMAIN pm)
    IN  [k \in 1..Len(asc) |-> asc[Len(asc) + 1 - k]]

(* sorted(pages_map.keys()) *)
PageOrder(pm) == Ascending(DOMAIN pm)

(* "\n".join(stitched) *)
RECURSIVE JoinLines(_)
JoinLines(ps) == IF ps = <<>> THEN <<>>
                 ELSE IF Len(ps) = 1 THEN ps[1]
                 ELSE ps[1] \o <<"\n">> \o JoinLines(Tail(ps))

Stitch(pm) ==
    LET order == PageOrder(pm)
    IN  JoinLines([k \in 1..Len(order) |-> PagePiece(order[k], pm[order[k]])])

(* page texts: empty (a page without a text layer), words, whitespace, and
   a text that itself contains a page marker *)
PageTexts == {<<>>, <<"a", "a">>, <<" ">>, PageMarker("7")}

PageMaps == SeqsUpTo(PageTexts, MaxPages)

QAIdle ==
    /\ question = <<>>
    /\ top_k = 0
    /\ concat_limit = 0
    /\ top = <<>>
    /\ t_i = 0
    /\ parts = <<>>
    /\ refs = <<>>
    /\ total = 0
    /\ result = None

(* pages_map has been extracted for the file "d1"; its stitched text is then
   chunked with overlap 0 and a chunk_size larger than the text *)
InitStitch ==
    /\ pages_map \in PageMaps
    /\ docs_text = <<>>
    /\ chunk_size \in {Len(Stitch(pages_map)) + 1, DefaultChunkSize}
    /\ overlap = 0
    /\ doc_i = 0
    /\ all_chunks = <<>>
    /\ index_struct = None
    /\ err = ""
    /\ pc = "stitch"
    /\ fname = ""
    /\ txt = <<>>
    /\ length = 0
    /\ start = 0
    /\ end = 0
    /\ cid = 0
    /\ chunks = <<>>
    /\ QAIdle
    /\ ChunkTextIdle
    /\ TrackerIdle
    /\ MenuIdle

(* results[fname] = "\n".join(stitched) *)
extract_text_from_documents ==
    /\ pc = "stitch"
    /\ docs_text' = <<[fname |-> "d1", text |-> Stitch(pages_map)]>>
    /\ pc' = "for"
    /\ UNCHANGED <<chunk_size, overlap, doc_i, all_chunks, index_struct, err,
                   fname, txt, length, start, end, cid, chunks>>
    /\ UNCHANGED qa_vars
    /\ UNCHANGED ext_vars

NextStitch ==
    \/ extract_text_from_documents
    \/ chunk_text_with_refs_call
    \/ chunk_text_with_refs_while
    \/ chunk_text_with_refs_return
    \/ chunk_and_index_documents_build

SpecStitch == InitStitch /\ [][NextStitch]_vars

(* the stitched text has been chunked *)
Chunked == doc_i = 1 /\ pc # "while"

RECURSIVE PagesWithEmbedded(_, _)
PagesWithEmbedded(pm, k) ==
    IF k = 0 THEN <<>>
    ELSE PagesWithEmbedded(pm, k - 1) \o <<k>> \o PageRefs(pm[k])

(* C26: chunking a stitched document with a chunk_size larger than the text
   and overlap = 0 yields a chunk whose pages are the page numbers of the
   document in their original order. *)
C26_StitchRoundTrip ==
    (Chunked /\ pages_map # <<>>) =>
        /\ Len(chunks) = 1
        /\ chunks[1].pages = [p \in 1..Len(pages_map) |-> p]

(* C26, amended: no chunk when every page is blank (whitespace and marker
   text only); otherwise exactly one chunk, whose pages are the page
   numbers in ascending order, each followed by the numbers of the page
   markers its own text contains. *)
C26_StitchRoundTripNonBlank ==
    Chunked =>
        IF \A p \in 1..Len(pages_map) : CleanSnippet(pages_map[p]) = <<>>
        THEN chunks = <<>>
        ELSE /\ Len(chunks) = 1
             /\ chunks[1].pages = PagesWithEmbedded(pages_map, Len(pages_map))
             /\ chunks[1].start = 0
             /\ chunks[1].end = Len(Normalize(Stitch(pages_map)))

(* a two-page document gave one chunk with the pages 1, 2 *)
C26_Witness ==
    /\ Chunked
    /\ Len(pages_map) = 2
    /\ Len(chunks) = 1
    /\ chunks[1].pages = <<1, 2>>

----------------------------------------------------------------------------
(* main.chunk_text *)

MaxTextLen == 3              \* the texts given to main.chunk_text have at most this many characters

(* the while loop of main.chunk_text is followed until it has emitted this
   many chunks; a loop that makes progress emits at most MaxTextLen *)
MaxCtChunks == MaxTextLen + 2

(* .replace("\r", "\n") *)
ReplaceCR(s) == [k \in 1..Len(s) |-> IF s[k] = "\r" THEN "\n" ELSE s[k]]

(* text.replace("\r\n", "\n").replace("\r", "\n") *)
NormalizeNewlines(s) == ReplaceCR(SubCRLF(s))

(* variant: the overlap is subtracted after the last window too *)
NextIAlways(e, ov, len) == e - ov

(* i = end - overlap if end < n else end *)
NextI(e, ov, len) == IF e < len THEN e - ov ELSE e

CtTexts == SeqsUpTo({"a", "\r", "\n"}, MaxTextLen)

(* main.chunk_text(text, chunk_size, overlap) is called *)
InitChunkText ==
    /\ ct_text \in CtTexts
    /\ \E c \in Configs : chunk_size = c.chunk_size /\ overlap = c.overlap
    /\ ct_n = 0
    /\ ct_i = 0
    /\ counter = 0
    /\ pc = "ct_call"
    /\ docs_text = <<>>
    /\ doc_i = 0
    /\ all_chunks = <<>>
    /\ index_struct = None
    /\ err = ""
    /\ fname = ""
    /\ txt = <<>>
    /\ length = 0
    /\ start = 0
    /\ end = 0
    /\ cid = 0
    /\ chunks = <<>>
    /\ QAIdle
    /\ StitchIdle
    /\ TrackerIdle
    /\ MenuIdle

ct_frame ==
    <<docs_text, doc_i, all_chunks, index_struct, err, fname, txt, length, start, cid,
      qa_vars, stitch_vars, tracker_vars, menu_vars>>

(* the text is normalised and the locals are initialised *)
chunk_text_call ==
    /\ pc = "ct_call"
    /\ ct_text' = NormalizeNewlines(ct_text)
    /\ ct_n' = Len(ct_text')
    /\ chunks' = <<>>
    /\ ct_i' = 0
    /\ counter' = 0
    /\ pc' = "ct_while"
    /\ UNCHANGED <<chunk_size, overlap, end>>
    /\ UNCHANGED ct_frame

(* one iteration of  while i < n *)
chunk_text_while ==
    /\ pc = "ct_while"
    /\ ct_i < ct_n
    /\ Len(chunks) < MaxCtChunks
    /\ LET e == Min(ct_n, ct_i + chunk_size)
           snippet == PySlice(ct_text, ct_i, e)
       IN  /\ end' = e
           /\ chunks' = Append(chunks, [id |-> "chunk_" \o ToString(counter),
                                        start |-> ct_i, end |-> e, text |-> snippet])
           /\ counter' = counter + 1
           /\ ct_i' = NextI(e, overlap, ct_n)
    /\ UNCHANGED <<chunk_size, overlap, ct_text, ct_n, pc>>
    /\ UNCHANGED ct_frame

(* return chunks *)
chunk_text_return ==
    /\ pc = "ct_while"
    /\ ~(ct_i < ct_n)
    /\ pc' = "ct_returned"
    /\ UNCHANGED <<chunk_size, overlap, end, chunks, ct_text, ct_n, ct_i, counter>>
    /\ UNCHANGED ct_frame

NextChunkText ==
    \/ chunk_text_call
    \/ chunk_text_while
    \/ chunk_text_return

(* the loop runs on as long as it can *)
SpecChunkText == InitChunkText /\ [][NextChunkText]_vars /\ WF_vars(NextChunkText)

(* C28: with chunk_size > 0 and 0 <= overlap < chunk_size main.chunk_text
   terminates, and its chunks chunk_0 .. chunk_{n-1} cover [0, len(text)),
   each starting overlap characters before the end of its predecessor, the
   last one ending at len(text); with overlap >= chunk_size and a text
   longer than chunk_size no iteration advances i, so the loop, once
   entered, never returns. *)
C28_ChunkTextTerminates ==
    /\ ValidConfig => <>(pc = "ct_returned")
    /\ []((pc = "ct_returned" /\ ValidConfig) =>
            /\ Len(chunks) = counter
            /\ \A k \in 1..Len(chunks) :
                  /\ chunks[k].id = "chunk_" \o ToString(k - 1)
                  /\ chunks[k].start < chunks[k].end
                  /\ chunks[k].text = SubSeq(ct_text, chunks[k].start + 1, chunks[k].end)
            /\ Covered(chunks) = 0..(ct_n - 1)
            /\ \A k \in 1..(Len(chunks) - 1) :
                  chunks[k + 1].start = chunks[k].end - overlap
            /\ ct_n > 0 => (chunks[1].start = 0 /\ chunks[Len(chunks)].end = ct_n))
    /\ [][(pc = "ct_while" /\ overlap >= chunk_size /\ ct_n > chunk_size) =>
            (ct_i' <= ct_i /\ (ct_n > 0 => pc' = "ct_while"))]_vars

(* a text has been returned in overlapping chunks *)
C28_Witness ==
    /\ pc = "ct_returned"
    /\ ValidConfig
    /\ overlap > 0
    /\ Len(chunks) >= 2
    /\ chunks[Len(chunks)].end = ct_n

----------------------------------------------------------------------------
(* core/cleaning_tracker.py *)

MaxPaths == 2                \* the tracker is asked about at most this many paths

Paths == {"p" \o ToString(k) : k \in 1..MaxPaths}

(* file contents: the empty file and a one-byte file *)
FileContents == {"", "a"}

(* hashlib.md5(content).hexdigest() *)
Md5(content) ==
    CASE content = "" -> "d41d8cd98f00b204e9800998ecf8427e"
      [] content = "a" -> "0cc175b9c0f1b6a831c399e269772661"

(* file_hash(filepath): None when the file cannot be opened or read *)
file_hash(files, path) == {Md5(c) : c \in files[path]}

(* load_cleaning_state(): {} when cleaning_state.json does not exist *)
load_cleaning_state(stored) == IF stored = None THEN <<>> ELSE CHOOSE st \in stored : TRUE

(* state.get(filepath) *)
Get(st, path) == IF path \in DOMAIN st THEN Some(st[path]) ELSE None

(* state.get(filepath) == h *)
SameHash(stored_hash, h) == stored_hash = h

(* state[filepath] = h *)
Put(st, path, h) == [q \in DOMAIN st \cup {path} |-> IF q = path THEN h ELSE st[q]]

(* the tracker has not been used yet; every file is readable or not *)
InitTracker ==
    /\ fs \in [Paths -> {None} \cup {Some(c) : c \in FileContents}]
    /\ cleaning_state = None
    /\ marked = {}
    /\ filepath = ""
    /\ already_cleaned = None
    /\ pc = "tracker"
    /\ ChunkerIdle
    /\ index_struct = None
    /\ err = ""
    /\ QAIdle
    /\ StitchIdle
    /\ ChunkTextIdle
    /\ MenuIdle

tracker_frame ==
    <<chunk_vars, index_struct, err, qa_vars, stitch_vars, ct_vars, menu_vars>>

(* is_already_cleaned(path) *)
is_already_cleaned ==
    \E path \in Paths :
        LET state == load_cleaning_state(cleaning_state)
            h == file_hash(fs, path)
        IN  /\ filepath' = path
            /\ already_cleaned' = Some(SameHash(Get(state, path), h))
            /\ pc' = "is_already_cleaned"
            /\ UNCHANGED <<fs, cleaning_state, marked>>
            /\ UNCHANGED tracker_frame

(* mark_cleaned(path) *)
mark_cleaned ==
    \E path \in Paths :
        LET state == load_cleaning_state(cleaning_state)
            h == file_hash(fs, path)
        IN  /\ filepath' = path
            /\ IF h # None
               THEN /\ cleaning_state' = Some(Put(state, path, CHOOSE x \in h : TRUE))
                    /\ marked' = marked \cup {<<path, c>> : c \in fs[path]}
               ELSE UNCHANGED <<cleaning_state, marked>>
            /\ pc' = "mark_cleaned"
            /\ UNCHANGED <<fs, already_cleaned>>
            /\ UNCHANGED tracker_frame

(* between two calls a file is rewritten, removed or made unreadable *)
file_changes ==
    \E path \in Paths, c \in {None} \cup {Some(x) : x \in FileContents} :
        /\ fs' = [fs EXCEPT ![path] = c]
        /\ pc' = "file_changes"
        /\ UNCHANGED <<cleaning_state, marked, filepath, already_cleaned>>
        /\ UNCHANGED tracker_frame

NextTracker ==
    \/ is_already_cleaned
    \/ mark_cleaned
    \/ file_changes

SpecTracker == InitTracker /\ [][NextTracker]_vars

(* C29: is_already_cleaned(path) returns true only if mark_cleaned(path)
   succeeded earlier while the file had the content it has now; it is false
   for a path that was never marked, a path that cannot be read included;
   and mark_cleaned on an unreadable path stores nothing. *)
C29_CleanedOnlyIfMarked ==
    /\ (pc = "is_already_cleaned" /\ already_cleaned = Some(TRUE)) =>
            \E c \in fs[filepath] : <<filepath, c>> \in marked
    /\ \A st \in cleaning_state : \A q \in DOMAIN st :
            \E c \in FileContents : <<q, c>> \in marked /\ st[q] = Md5(c)

----------------------------------------------------------------------------
(* main.find_in_documents *)

MenuTopK == 6                \* answer_from_doc_index(q, index, top_k=6)
FallbackTopK == 10           \* find_in_documents(local_docs, q, top_k=10)
AnswerTopK == 8              \* find_in_documents(doc_index, question, top_k=8)
SnippetBefore == 200         \* start = max(0, pos - 200)
SnippetLength == 600         \* text[start:start + 600]

(* [t for t in re.split(r"\W+", q) if t] *)
RECURSIVE WordsFrom(_, _)
WordsFrom(s, i) ==
    IF i > Len(s) THEN <<>>
    ELSE LET r == WordRun(s, i)
         IN  IF r >= 1
             THEN <<SubSeq(s, i, i + r - 1)>> \o WordsFrom(s, i + r)
             ELSE WordsFrom(s, i + 1)

(* lc.find(tok) *)
Find(lc, tok) ==
    IF Contains(lc, tok)
    THEN CHOOSE o \in 0..(Len(lc) - Len(tok)) :
            /\ SubSeq(lc, o + 1, o + Len(tok)) = tok
            /\ \A j \in 0..(o - 1) : SubSeq(lc, j + 1, j + Len(tok)) # tok
    ELSE -1

(* .replace("\n", " ") *)
ReplaceNewlines(s) == [k \in 1..Len(s) |-> IF s[k] = "\n" THEN " " ELSE s[k]]

(* sorted(results, key=lambda x: x["hits"], reverse=True): a stable sort *)
RECURSIVE SortedByHits(_)
SortedByHits(rs) ==
    IF rs = <<>> THEN <<>>
    ELSE LET rest == SortedByHits(Tail(rs))
             before == SelectSeq(rest, LAMBDA r : r.hits > rs[1].hits)
             after == SelectSeq(rest, LAMBDA r : r.hits <= rs[1].hits)
         IN  before \o <<rs[1]>> \o after

find_in_documents(docs, q, k) ==
    LET ql == LowerText(Strip(q))
        tokens == WordsFrom(ql, 1)
        Hits(text) == Cardinality({j \in 1..Len(tokens) : Contains(LowerText(text), tokens[j])})
        Pos(text) == CHOOSE o \in {Find(LowerText(text), tokens[j]) : j \in 1..Len(tokens)} \ {-1} :
                        \A o2 \in {Find(LowerText(text), tokens[j]) : j \in 1..Len(tokens)} \ {-1} : o <= o2
        Ref(d) == LET st == Max(0, Pos(d.text) - SnippetBefore)
                  IN  [file |-> d.fname, hits |-> Hits(d.text),
                       snippet |-> ReplaceNewlines(PySlice(d.text, st, st + SnippetLength)),
                       position |-> Pos(d.text)]
        found == SelectSeq(docs, LAMBDA d : Hits(d.text) > 0)
        results == [j \in 1..Len(found) |-> Ref(found[j])]
    IN  IF ql = <<>> \/ docs = <<>> \/ tokens = <<>> THEN <<>>
        ELSE PySlice(SortedByHits(results), 0, k)

----------------------------------------------------------------------------
(* main.interactive_menu *)

MaxMenuDocs == 1             \* the menu works on at most this many documents

Choices == {"1", "2", "3", "4", "5", "6", "7", "8", "9", "0"}

MenuTexts == {<<>>, <<" ">>, <<"a", "a">>, PageMarker("1") \o <<"\n", "\n">>}

(* filename -> text dictionaries, in insertion order *)
MenuDocSets ==
    {[k \in 1..Len(ts) |-> [fname |-> "d" \o ToString(k), text |-> ts[k]]]
     : ts \in SeqsUpTo(MenuTexts, MaxMenuDocs)}

MenuQuestions == {<<>>, <<"a", "a">>, <<"z", "z">>}

(* the answers of the parts of the program that are not modelled, and the
   fixed answers, each held as one piece of text *)
DataAnswer == <<"answer_using_data">>
LlmAnswer == <<"ask_llm">>
SummaryText == <<"summary_text">>
SnippetsAnswer == <<"Answer based on document snippets (see references).">>

Response(answer, doc_refs) == [answer |-> answer, table_refs |-> <<>>, doc_refs |-> doc_refs]

(* find_in_documents for the documents and the questions of the menu, each
   result worked out once *)
Found ==
    [docs \in MenuDocSets, q \in {Strip(x) : x \in MenuQuestions},
     k \in {AnswerTopK, FallbackTopK} |-> find_in_documents(docs, q, k)]

(* interactive_menu is entered: no response yet, the documents of the data folder *)
InitMenu ==
    /\ choice = ""
    /\ _last_ai_response = None
    /\ doc_index \in MenuDocSets
    /\ pc = "menu"
    /\ ChunkerIdle
    /\ index_struct = None
    /\ err = ""
    /\ QAIdle
    /\ StitchIdle
    /\ ChunkTextIdle
    /\ TrackerIdle

menu_frame == <<stitch_vars, ct_vars, tracker_vars>>

(* the frames of chunk_and_index_documents and answer_from_doc_index are gone *)
FramesGone ==
    /\ docs_text' = <<>>
    /\ chunk_size' = 0
    /\ overlap' = 0
    /\ doc_i' = 0
    /\ all_chunks' = <<>>
    /\ fname' = ""
    /\ txt' = <<>>
    /\ length' = 0
    /\ start' = 0
    /\ end' = 0
    /\ cid' = 0
    /\ chunks' = <<>>
    /\ question' = <<>>
    /\ top_k' = 0
    /\ concat_limit' = 0
    /\ top' = <<>>
    /\ t_i' = 0
    /\ parts' = <<>>
    /\ refs' = <<>>
    /\ total' = 0
    /\ result' = None
    /\ err' = ""

(* back to the head of the while True loop *)
ToMenu ==
    /\ pc' = "menu"
    /\ UNCHANGED <<chunk_vars, qa_vars, err, index_struct, choice, doc_index>>
    /\ UNCHANGED menu_frame

(* choice = input("Enter your choice: ").strip() *)
menu_input ==
    /\ pc = "menu"
    /\ choice' \in Choices
    /\ pc' = "chosen"
    /\ UNCHANGED <<chunk_vars, qa_vars, err, index_struct, _last_ai_response, doc_index>>
    /\ UNCHANGED menu_frame

(* choices 1, 4, 5 and an unknown choice: printing and exporting only *)
menu_choice_print ==
    /\ pc = "chosen"
    /\ choice \in {"1", "4", "5", "0"}
    /\ UNCHANGED _last_ai_response
    /\ ToMenu

(* choice 2: answer_using_data, then perhaps the LLM's rephrasing *)
menu_choice_2 ==
    /\ pc = "chosen"
    /\ choice = "2"
    /\ \E q \in MenuQuestions, answer \in {DataAnswer, LlmAnswer} :
          _last_ai_response' =
              Some(Response(answer, Found[doc_index, Strip(q), AnswerTopK]))
    /\ ToMenu

(* choice 3 *)
menu_choice_3 ==
    /\ pc = "chosen"
    /\ choice = "3"
    /\ pc' = "exited"
    /\ UNCHANGED <<chunk_vars, qa_vars, err, index_struct, choice, _last_ai_response,
                   doc_index>>
    /\ UNCHANGED menu_frame

(* choice 6: generate_advanced_insights returns or raises *)
menu_choice_6 ==
    /\ pc = "chosen"
    /\ choice = "6"
    /\ \/ _last_ai_response' = Some(Response(SummaryText, <<>>))
       \/ UNCHANGED _last_ai_response
    /\ ToMenu

SummarySnippet == 300        \* v[:300]
SummaryRefs == 10            \* [...][:10]

(* doc_index.update(docs_texts) *)
RECURSIVE Update(_, _)
Update(d, more) ==
    IF more = <<>> THEN d
    ELSE LET item == more[1]
             known == \E k \in 1..Len(d) : d[k].fname = item.fname
             d2 == IF known
                   THEN [k \in 1..Len(d) |-> IF d[k].fname = item.fname THEN item ELSE d[k]]
                   ELSE Append(d, item)
         IN  Update(d2, Tail(more))

(* choice 7: no folder given; or the folder is loaded, its documents are
   summarised by the LLM when that works, and merged into doc_index (texts
   of more than 8000 characters, which main.chunk_text would split and join
   again, do not occur) *)
menu_choice_7 ==
    /\ pc = "chosen"
    /\ choice = "7"
    /\ \/ UNCHANGED <<_last_ai_response, doc_index>>
       \/ \E docs_texts \in MenuDocSets :
             /\ \/ /\ docs_texts # <<>>
                   /\ _last_ai_response' =
                         Some(Response(SummaryText,
                                       PySlice([k \in 1..Len(docs_texts) |->
                                                  [file |-> docs_texts[k].fname,
                                                   snippet |-> PySlice(docs_texts[k].text, 0,
                                                                       SummarySnippet)]],
                                               0, SummaryRefs)))
                \/ UNCHANGED _last_ai_response
             /\ doc_index' = Update(doc_index, docs_texts)
    /\ pc' = "menu"
    /\ UNCHANGED <<chunk_vars, qa_vars, err, index_struct, choice>>
    /\ UNCHANGED menu_frame

(* the fallback search over local_docs and what it leaves in _last_ai_response *)
Fallback(local_docs, q) ==
    LET doc_refs == Found[local_docs, q, FallbackTopK]
    IN  IF doc_refs # <<>> THEN Some(Response(SnippetsAnswer, doc_refs))
        ELSE _last_ai_response

(* choice 8 up to the call of chunk_and_index_documents(local_docs): the
   folder may fail to load, there may be no documents or no question, and
   without the document QA module the fallback search answers *)
menu_choice_8 ==
    /\ pc = "chosen"
    /\ choice = "8"
    /\ \E loaded \in {None} \cup {Some(d) : d \in MenuDocSets},
          from_folder \in BOOLEAN, input_q \in MenuQuestions, qa_module \in BOOLEAN :
          LET local_docs == IF from_folder THEN (CHOOSE d \in loaded : TRUE) ELSE doc_index
              q == Strip(input_q)
          IN  IF (from_folder /\ loaded = None) \/ local_docs = <<>> \/ q = <<>>
              THEN /\ UNCHANGED _last_ai_response
                   /\ ToMenu
              ELSE IF ~qa_module
              THEN /\ _last_ai_response' = Fallback(local_docs, q)
                   /\ ToMenu
              ELSE /\ docs_text' = local_docs
                   /\ chunk_size' = DefaultChunkSize
                   /\ overlap' = DefaultOverlap
                   /\ doc_i' = 0
                   /\ all_chunks' = <<>>
                   /\ question' = q
                   /\ pc' = "for"
                   /\ UNCHANGED <<fname, txt, length, start, end, cid, chunks>>
                   /\ UNCHANGED <<top_k, concat_limit, top, t_i, parts, refs, total, result>>
                   /\ UNCHANGED <<err, index_struct, choice, _last_ai_response, doc_index>>
                   /\ UNCHANGED menu_frame

(* the chunk list has used up the memory: chunks.append raises MemoryError,
   which leaves chunk_and_index_documents *)
chunk_text_with_refs_exhausts ==
    /\ pc = "while"
    /\ LoopCond(start, length)
    /\ Len(chunks) >= MaxChunks
    /\ pc' = "raised"
    /\ err' = "MemoryError"
    /\ UNCHANGED <<chunk_vars, qa_vars, index_struct>>
    /\ UNCHANGED ext_vars

(* variant: the answer is asked for as soon as the build has been started *)
BuildStarted == pc \in {"returned", "for"}

(* index = chunk_and_index_documents(local_docs) has returned *)
BuildReturned == pc = "returned"

(* doc_answer = answer_from_doc_index(q, index, top_k=6) is called *)
menu_8_answer ==
    /\ BuildReturned
    /\ top_k' = MenuTopK
    /\ concat_limit' = DefaultConcatLimit
    /\ pc' = "ask"
    /\ UNCHANGED <<chunk_vars, index_struct, err, question, top, t_i, parts, refs, total,
                   result>>
    /\ UNCHANGED ext_vars

(* the answer is printed and recorded *)
menu_8_print ==
    /\ pc = "answered"
    /\ \E doc_answer \in result :
          _last_ai_response' = Some(Response(doc_answer.answer, doc_answer.references))
    /\ pc' = "menu"
    /\ FramesGone
    /\ UNCHANGED <<index_struct, choice, doc_index>>
    /\ UNCHANGED menu_frame

(* except Exception: the error is printed and the fallback search answers *)
menu_8_except ==
    /\ pc = "raised"
    /\ _last_ai_response' = Fallback(docs_text, question)
    /\ pc' = "menu"
    /\ FramesGone
    /\ UNCHANGED <<index_struct, choice, doc_index>>
    /\ UNCHANGED menu_frame

(* variant: choice 9 goes on to export whatever _last_ai_response is *)
NoResponseNever(r) == FALSE

(* _last_ai_response is None *)
NoResponse(r) == r = None

(* choice 9 up to the call of export_last_response *)
menu_choice_9 ==
    /\ pc = "chosen"
    /\ choice = "9"
    /\ \/ /\ NoResponse(_last_ai_response)
          /\ pc' = "menu"
       \/ /\ ~NoResponse(_last_ai_response)
          /\ pc' \in {"menu", "export_last_response"}
    /\ UNCHANGED <<chunk_vars, qa_vars, err, index_struct, choice, _last_ai_response,
                   doc_index>>
    /\ UNCHANGED menu_frame

(* export_last_response(_last_ai_response, format_opt=fmt) writes its file *)
export_last_response ==
    /\ pc = "export_last_response"
    /\ UNCHANGED _last_ai_response
    /\ ToMenu

(* with the default chunk_size and overlap the chunker returns for the empty
   text only, so the index that reaches answer_from_doc_index is the one of
   an empty corpus and the loop over top is not entered *)
NextMenu ==
    \/ menu_input
    \/ menu_choice_print
    \/ menu_choice_2
    \/ menu_choice_3
    \/ menu_choice_6
    \/ menu_choice_7
    \/ menu_choice_8
    \/ chunk_text_with_refs_call
    \/ chunk_text_with_refs_while
    \/ chunk_text_with_refs_return
    \/ chunk_text_with_refs_exhausts
    \/ chunk_and_index_documents_build
    \/ menu_8_answer
    \/ retrieve_top_chunks
    \/ answer_from_doc_index_top
    \/ menu_8_print
    \/ menu_8_except
    \/ menu_choice_9
    \/ export_last_response

(* every step that can be taken is taken eventually *)
SpecMenu == InitMenu /\ [][NextMenu]_vars /\ WF_vars(NextMenu)

----------------------------------------------------------------------------
(* Properties of the menu *)

(* the index chunk_and_index_documents returns for the chunk list cs *)
CompleteIndex(cs) == IF Corpus(cs) = <<>> THEN EmptyIndex ELSE FittedIndex(cs)

(* answer_from_doc_index is running *)
Reading == pc \in {"ask", "got_top", "loop", "join", "answered"}

(* C25: build-new-then-swap: index changes only when a build returns, and
   then to the complete index over all chunks of all documents; while a
   build is in flight, and after one has failed or been given up, it is
   still the previous one; and answer_from_doc_index only ever runs on the
   complete index of the build that has just returned. *)
C25_BuildThenSwap ==
    /\ [][index_struct' # index_struct =>
            /\ pc = "for"
            /\ pc' = "returned"
            /\ doc_i = Len(docs_text)
            /\ index_struct' = Some(CompleteIndex(all_chunks))]_vars
    /\ [](Reading =>
            /\ doc_i = Len(docs_text)
            /\ index_struct = Some(CompleteIndex(all_chunks)))

(* a later build is in flight, with chunks collected, and the index of the
   earlier build is still in place *)
C25_Witness ==
    /\ pc = "while"
    /\ chunks # <<>>
    /\ index_struct = Some(EmptyIndex)

(* C27: every choice made in the menu eventually completes and control is
   back at the menu prompt, or the program has exited on choice 3; choice 8
   on a non-empty document set, chunked with chunk_size 1200 and overlap
   250, eventually records an answer or a fallback and returns to the menu. *)
C27_ChoiceCompletes ==
    (pc = "chosen") ~> (pc \in {"menu", "exited"})

(* C30: export_last_response is called only when _last_ai_response is not
   None; a recorded response is never reset to None; and the choices 1, 3,
   4, 5 and 9 leave it as it is. *)
C30_ResponseKept ==
    /\ [](pc = "export_last_response" => _last_ai_response # None)
    /\ [][_last_ai_response # None => _last_ai_response' # None]_vars
    /\ [][((pc = "chosen" /\ choice \in {"1", "3", "4", "5", "9"})
            \/ pc = "export_last_response")
              => _last_ai_response' = _last_ai_response]_vars

(* export_last_response has been called with a recorded response *)
C30_Witness ==
    /\ pc = "export_last_response"
    /\ choice = "9"
    /\ _last_ai_response # None

====
